---- MODULE Spec2Model ----
(***************************************************************************)
(* The AutoWalkCalculator widget of src/src/components/vrti/               *)
(* AutoWalkCalculator.tsx: the smoothing process (requestAnimationFrame    *)
(* loop), the speed composition (baseSpeed, postMultiplierSpeed,           *)
(* effectiveOffset, finalSpeed) and the handlers of its controls.          *)
(*                                                                         *)
(* Numbers are fixed point, so that every product the code forms is an     *)
(* integer:                                                                *)
(*   speeds (targetSpeed, currentSpeed)   in units of 0.001   (5.0 = 5000) *)
(*   baseSpeed                            in units of 0.0001  (1.0 = 10000)*)
(*   multiplier                           in units of 0.01    (1.0 = 100)  *)
(*   postMultiplierSpeed, offsets,                                          *)
(*   presets, finalSpeed                  in units of 1e-6    (1.0 = 10^6) *)
(* baseSpeed * multiplier is then exact.  The one product that is not an   *)
(* integer, diff * ANIMATION_SPEED, is rounded to the nearest 0.001, as    *)
(* the double arithmetic of the code rounds to the nearest double.         *)
(***************************************************************************)
EXTENDS Integers, Sequences, FiniteSets, TLC

VARIABLES
    targetSpeed,    \* useState(5.0), line 207
    currentSpeed,   \* useState(5.0), line 208
    multiplier,     \* useState(1.0), line 209
    overrideIndex,  \* useState(-1), line 210
    tempOffset,     \* useState(0), line 211
    holdingOffset,  \* useState(null), line 212: "down", "up" or "null"
    frames,         \* the animation-frame callbacks requested and not yet run
                    \* or cancelled, oldest first; each holds the targetSpeed
                    \* its animate closure captured, and ref = TRUE when
                    \* animationRef.current is its id
    mounted,        \* the component is mounted
    mouse,          \* the mouse button is held on a nudge button: "down"
                    \* (Slow Down), "up" (Catch Up) or "none"
    touch,          \* a touch that began on a nudge button is on the screen
    table,          \* the state of TreadmillTable (TreadmillTable.tsx, lines
                    \* 88-91), [search, selectedFeatures, selectedDrivers,
                    \* page], or "unmounted" on a page without the table
    script          \* one run of scripts/generate-releases.js, [pc, dir,
                    \* files, fileIdx, releases, index, error, exitCode], or
                    \* "idle" while the script is not run

calculatorVars == <<targetSpeed, currentSpeed, multiplier, overrideIndex,
                    tempOffset, holdingOffset, frames, mounted, mouse, touch>>

vars == <<calculatorVars, table, script>>

\* The state of TreadmillTable.
search == table.search                      \* useState(""), the search box
selectedFeatures == table.selectedFeatures  \* useState([]), in order of ticking
selectedDrivers == table.selectedDrivers    \* useState([]), in order of ticking
page == table.page                          \* useState(1)

\* The state of a run of generateReleaseFiles.
pc == script.pc              \* the await the run stands at, "done" or "exit"
dir == script.dir            \* OUTPUT_DIR: the set of its entries, [name, body]
files == script.files        \* const files = await fs.readdir(OUTPUT_DIR)
fileIdx == script.fileIdx    \* the position of the for loop over files
releases == script.releases  \* const releases = await fetchReleases()
index == script.index        \* the position of the loop over sortedKeys
error == script.error        \* the error caught by the try block, or "none"
exitCode == script.exitCode  \* the exit code of the process, or "running"

----------------------------------------------------------------------------
(* Program constants, in the units above. *)

MAX_SPEED == 10000
ANIMATION_SPEED_DEN == 100
SNAP_EPSILON == 50
MIN_FINAL_SPEED == 100000
TEMP_OFFSET_AMOUNT == 250000
MULTIPLIER_SNAP_THRESHOLD == 8
DEFAULT_SPEED == 5000
UNITY_MULTIPLIER == 100
FULL_SPEED == 1000000
BASE_ONE == 10000
TARGET_STEP == 500
MULTIPLIER_STEP == 5
MULTIPLIER_MAX == 200
LAST_PRESET == 3
NO_OVERRIDE == -1

presets == <<250000, 500000, 750000, 1000000>>

(* Bounds of the model. *)

\* The main specification moves the target slider at most this many steps
\* (of 0.5) away from its default position.
MaxTargetSteps == 1
\* The main specification moves the multiplier slider at most this many
\* steps (of 0.05) away from its default position.
MaxMultSteps == 2

----------------------------------------------------------------------------
(* Arithmetic. *)

Abs(x) == IF x < 0 THEN -x ELSE x

Min(a, b) == IF a <= b THEN a ELSE b

Max(a, b) == IF a >= b THEN a ELSE b

\* n / d rounded to the nearest integer, halves away from zero.
RoundDiv(n, d) == IF n >= 0 THEN (2 * n + d) \div (2 * d)
                  ELSE -((2 * (-n) + d) \div (2 * d))

----------------------------------------------------------------------------
(* The positions of the two range inputs. *)

\* <input type="range" min={0} max={10} step={0.5}>
TargetPositions == {k * TARGET_STEP : k \in 0 .. (MAX_SPEED \div TARGET_STEP)}

\* <input type="range" min={0} max={2} step={0.05}>
MultiplierPositions ==
    {k * MULTIPLIER_STEP : k \in 0 .. (MULTIPLIER_MAX \div MULTIPLIER_STEP)}

NearTargetPositions ==
    {v \in TargetPositions : Abs(v - DEFAULT_SPEED) <= MaxTargetSteps * TARGET_STEP}

NearMultiplierPositions ==
    {v \in MultiplierPositions :
        Abs(v - UNITY_MULTIPLIER) <= MaxMultSteps * MULTIPLIER_STEP}

----------------------------------------------------------------------------
(* The speed composition, lines 216-254. *)

isOverride == overrideIndex >= 0

\* override !== null ? presets[overrideIndex]; TLA+ sequences start at 1.
override == presets[overrideIndex + 1]

baseSpeed == Min((currentSpeed * BASE_ONE) \div MAX_SPEED, BASE_ONE)

\* The override taken through the reverse branch whatever the target's sign.
postMultiplierSpeedReverse ==
    IF isOverride
    THEN Min(baseSpeed * UNITY_MULTIPLIER, override)
    ELSE baseSpeed * multiplier

\* The multiplier left out of the product.
postMultiplierSpeedUnscaled ==
    IF isOverride
    THEN IF targetSpeed >= 0
         THEN override
         ELSE Min(baseSpeed * UNITY_MULTIPLIER, override)
    ELSE baseSpeed * UNITY_MULTIPLIER

\* The sign test written > instead of >=: a target of 0 takes the reverse branch.
postMultiplierSpeedStrict ==
    IF isOverride
    THEN IF targetSpeed > 0
         THEN override
         ELSE Min(baseSpeed * UNITY_MULTIPLIER, override)
    ELSE baseSpeed * multiplier

postMultiplierSpeed ==
    IF isOverride
    THEN IF targetSpeed >= 0
         THEN override
         ELSE Min(baseSpeed * UNITY_MULTIPLIER, override)
    ELSE baseSpeed * multiplier

\* effectiveOffset without the Math.max against MIN_FINAL_SPEED.
effectiveOffsetNoFloor ==
    IF tempOffset < 0
    THEN IF postMultiplierSpeed >= MIN_FINAL_SPEED THEN tempOffset ELSE 0
    ELSE tempOffset


\* effectiveOffset with the sub-floor branch passing tempOffset on.
effectiveOffsetSubFloor ==
    IF tempOffset < 0
    THEN IF postMultiplierSpeed >= MIN_FINAL_SPEED
         THEN Max(tempOffset, MIN_FINAL_SPEED - postMultiplierSpeed)
         ELSE tempOffset
    ELSE tempOffset

\* effectiveOffset with a ceiling on the positive side, mirroring the floor.
effectiveOffsetCeiling ==
    IF tempOffset < 0
    THEN IF postMultiplierSpeed >= MIN_FINAL_SPEED
         THEN Max(tempOffset, MIN_FINAL_SPEED - postMultiplierSpeed)
         ELSE 0
    ELSE Max(0, Min(tempOffset, FULL_SPEED - postMultiplierSpeed))


effectiveOffset ==
    IF tempOffset < 0
    THEN IF postMultiplierSpeed >= MIN_FINAL_SPEED
         THEN Max(tempOffset, MIN_FINAL_SPEED - postMultiplierSpeed)
         ELSE 0
    ELSE tempOffset

\* finalSpeed without the Math.min(1, ...) ceiling.
finalSpeedNoCeiling == Max(0, postMultiplierSpeed + effectiveOffset)


finalSpeed == Max(0, Min(FULL_SPEED, postMultiplierSpeed + effectiveOffset))

----------------------------------------------------------------------------
(* The smoothing process, lines 220-234. *)

\* animate with the sign of diff lost: prev - diff * ANIMATION_SPEED.
AnimateSpeedAway(prev, target) ==
    LET diff == target - prev
    IN  IF Abs(diff) < SNAP_EPSILON
        THEN target
        ELSE prev - RoundDiv(diff, ANIMATION_SPEED_DEN)

\* animate without the snap: always prev + diff * ANIMATION_SPEED.
AnimateSpeedNoSnap(prev, target) ==
    prev + RoundDiv(target - prev, ANIMATION_SPEED_DEN)

\* animate with the snap test written <= instead of <.
AnimateSpeedSnapClosed(prev, target) ==
    LET diff == target - prev
    IN  IF Abs(diff) <= SNAP_EPSILON
        THEN target
        ELSE prev + RoundDiv(diff, ANIMATION_SPEED_DEN)

\* The updater handed to setCurrentSpeed by animate, whose closure holds target.
AnimateSpeed(prev, target) ==
    LET diff == target - prev
    IN  IF Abs(diff) < SNAP_EPSILON
        THEN target
        ELSE prev + RoundDiv(diff, ANIMATION_SPEED_DEN)

\* animationRef.current = requestAnimationFrame(animate)
RequestFrame(fs, target) ==
    Append([i \in 1 .. Len(fs) |-> [fs[i] EXCEPT !.ref = FALSE]],
           [target |-> target, ref |-> TRUE])

\* if (animationRef.current) cancelAnimationFrame(animationRef.current):
\* cancelling an id whose callback has run or was cancelled does nothing.
IsNotRef(f) == ~f.ref

CancelFrame(fs) == SelectSeq(fs, IsNotRef)

\* A frame that also releases a held nudge, as a timeout would.
AnimateFrameAutoRelease ==
    /\ frames # <<>>
    /\ LET f == Head(frames)
       IN  /\ currentSpeed' = IF mounted
                              THEN AnimateSpeed(currentSpeed, f.target)
                              ELSE currentSpeed
           /\ frames' = RequestFrame(Tail(frames), f.target)
    /\ tempOffset' = 0
    /\ holdingOffset' = "null"
    /\ UNCHANGED <<targetSpeed, multiplier, overrideIndex, mounted, mouse,
                   touch>>
    /\ UNCHANGED <<table, script>>

\* One animation frame: the oldest pending callback runs.
AnimateFrame ==
    /\ frames # <<>>
    /\ LET f == Head(frames)
       IN  /\ currentSpeed' = IF mounted
                              THEN AnimateSpeed(currentSpeed, f.target)
                              ELSE currentSpeed
           /\ frames' = RequestFrame(Tail(frames), f.target)
    /\ UNCHANGED <<targetSpeed, multiplier, overrideIndex, tempOffset,
                   holdingOffset, mounted, mouse, touch>>
    /\ UNCHANGED <<table, script>>

\* The effect with an empty dependency list: it never runs again.
RerunEffectNoDeps(fs, old, new) == fs

\* The effect returning no cleanup: the old loop's frame stays pending.
RerunEffectNoCleanup(fs, old, new) ==
    IF new = old THEN fs ELSE RequestFrame(fs, new)

\* A render in which targetSpeed changed: the effect's cleanup runs, then the
\* effect with the new closure.
RerunEffect(fs, old, new) ==
    IF new = old THEN fs ELSE RequestFrame(CancelFrame(fs), new)

\* setTargetSpeed(parseFloat(e.target.value)) of the target range input,
\* which is disabled while an override is active.
SetTargetSpeed(v) ==
    /\ mounted
    /\ ~isOverride
    /\ targetSpeed' = v
    /\ frames' = RerunEffect(frames, targetSpeed, v)
    /\ UNCHANGED <<currentSpeed, multiplier, overrideIndex, tempOffset,
                   holdingOffset, mounted, mouse, touch>>
    /\ UNCHANGED <<table, script>>

\* The targetSpeed the effect last ran with: the one held by the closure whose
\* frame id is in animationRef.current.
EffectTarget == frames[CHOOSE i \in DOMAIN frames : frames[i].ref].target

\* A render with a new targetSpeed is committed and its effect has not run.
EffectStale ==
    /\ \E i \in DOMAIN frames : frames[i].ref
    /\ EffectTarget # targetSpeed

\* setTargetSpeed with the effect left to a later flush: useEffect runs after
\* the commit, and an animation frame may come first.  Pending effects are
\* flushed before the next update is rendered.
SetTargetSpeedDeferred(v) ==
    /\ mounted
    /\ ~isOverride
    /\ ~EffectStale
    /\ targetSpeed' = v
    /\ UNCHANGED <<currentSpeed, multiplier, overrideIndex, tempOffset,
                   holdingOffset, frames, mounted, mouse, touch>>
    /\ UNCHANGED <<table, script>>

\* The flush of the pending effect: the cleanup of the old effect, then the
\* effect of the committed render.
FlushEffect ==
    /\ mounted
    /\ EffectStale
    /\ frames' = RerunEffect(frames, EffectTarget, targetSpeed)
    /\ UNCHANGED <<targetSpeed, currentSpeed, multiplier, overrideIndex,
                   tempOffset, holdingOffset, mounted, mouse, touch>>
    /\ UNCHANGED <<table, script>>

\* The effect returning no cleanup: the pending frame survives the unmount.
UnmountNoCleanup ==
    /\ mounted
    /\ mounted' = FALSE
    /\ UNCHANGED <<targetSpeed, currentSpeed, multiplier, overrideIndex,
                   tempOffset, holdingOffset, frames, mouse, touch>>
    /\ UNCHANGED <<table, script>>

\* The component unmounts: the effect's cleanup runs.
Unmount ==
    /\ mounted
    /\ mounted' = FALSE
    /\ frames' = CancelFrame(frames)
    /\ UNCHANGED <<targetSpeed, currentSpeed, multiplier, overrideIndex,
                   tempOffset, holdingOffset, mouse, touch>>
    /\ UNCHANGED <<table, script>>

----------------------------------------------------------------------------
(* The handlers, lines 256-289. *)

\* The wrap one step early: prev >= 2.
NextOverrideIndexEarly(prev) ==
    IF prev >= LAST_PRESET - 1 THEN NO_OVERRIDE ELSE prev + 1

\* The wrap one step late: prev > 3.
NextOverrideIndexLate(prev) ==
    IF prev > LAST_PRESET THEN NO_OVERRIDE ELSE prev + 1

\* The toggle stepping by two.
NextOverrideIndexSkip(prev) ==
    IF prev >= LAST_PRESET THEN NO_OVERRIDE ELSE Min(prev + 2, LAST_PRESET)


NextOverrideIndex(prev) == IF prev >= LAST_PRESET THEN NO_OVERRIDE ELSE prev + 1

HandleOverrideClick ==
    /\ mounted
    /\ overrideIndex' = NextOverrideIndex(overrideIndex)
    /\ UNCHANGED <<targetSpeed, currentSpeed, multiplier, tempOffset,
                   holdingOffset, frames, mounted, mouse, touch>>
    /\ UNCHANGED <<table, script>>

\* The comparison written <= instead of <.
WithinSnapThresholdClosed(v) ==
    Abs(v - UNITY_MULTIPLIER) <= MULTIPLIER_SNAP_THRESHOLD

\* The threshold taken as one step of the slider: 0.95 and 1.05 are stored.
WithinSnapThresholdNarrow(v) == Abs(v - UNITY_MULTIPLIER) < MULTIPLIER_STEP

\* Math.abs(v - 1.0) < MULTIPLIER_SNAP_THRESHOLD on doubles.  v is a decimal
\* with two places; the comparison is that of the decimals except at the
\* distance 0.08 itself, where the doubles decide: 1.0 - 0.92 is
\* 0.07999999999999996, which is below the double 0.08, and 1.08 - 1.0 is
\* 0.08000000000000007, which is not.
WithinSnapThreshold(v) ==
    IF Abs(v - UNITY_MULTIPLIER) = MULTIPLIER_SNAP_THRESHOLD
    THEN v < UNITY_MULTIPLIER
    ELSE Abs(v - UNITY_MULTIPLIER) < MULTIPLIER_SNAP_THRESHOLD

SnapMultiplier(v) == IF WithinSnapThreshold(v) THEN UNITY_MULTIPLIER ELSE v

HandleMultiplierChange(v) ==
    /\ mounted
    /\ multiplier' = SnapMultiplier(v)
    /\ UNCHANGED <<targetSpeed, currentSpeed, overrideIndex, tempOffset,
                   holdingOffset, frames, mounted, mouse, touch>>
    /\ UNCHANGED <<table, script>>

\* The multiplier range input without its disabled attribute.
MultiplierInputNotDisabled(v) == HandleMultiplierChange(v)

\* onChange of the multiplier range input, disabled while an override is active.
MultiplierInput(v) ==
    /\ ~isOverride
    /\ HandleMultiplierChange(v)

\* handleSlowDown subtracting from the offset it finds.
HandleSlowDownAccumulates ==
    /\ tempOffset' = tempOffset - TEMP_OFFSET_AMOUNT
    /\ holdingOffset' = "down"

HandleSlowDown ==
    /\ tempOffset' = -TEMP_OFFSET_AMOUNT
    /\ holdingOffset' = "down"

\* handleCatchUp giving way to a nudge already held: the first writer wins.
HandleCatchUpFirstWins ==
    IF holdingOffset = "null"
    THEN tempOffset' = TEMP_OFFSET_AMOUNT /\ holdingOffset' = "up"
    ELSE UNCHANGED <<tempOffset, holdingOffset>>

HandleCatchUp ==
    /\ tempOffset' = TEMP_OFFSET_AMOUNT
    /\ holdingOffset' = "up"

HandleOffsetRelease ==
    /\ tempOffset' = 0
    /\ holdingOffset' = "null"

\* handleResetTreadmill also clearing the override, as handleResetVRTI does.
HandleResetTreadmillClearsOverride ==
    /\ mounted
    /\ targetSpeed # DEFAULT_SPEED
    /\ targetSpeed' = DEFAULT_SPEED
    /\ overrideIndex' = NO_OVERRIDE
    /\ frames' = RerunEffect(frames, targetSpeed, DEFAULT_SPEED)
    /\ UNCHANGED <<currentSpeed, multiplier, tempOffset, holdingOffset,
                   mounted, mouse, touch>>
    /\ UNCHANGED <<table, script>>

\* handleResetTreadmill also jumping currentSpeed to the default.
HandleResetTreadmillJumps ==
    /\ mounted
    /\ targetSpeed # DEFAULT_SPEED
    /\ targetSpeed' = DEFAULT_SPEED
    /\ currentSpeed' = DEFAULT_SPEED
    /\ frames' = RerunEffect(frames, targetSpeed, DEFAULT_SPEED)
    /\ UNCHANGED <<multiplier, overrideIndex, tempOffset, holdingOffset,
                   mounted, mouse, touch>>
    /\ UNCHANGED <<table, script>>

\* The reset button of the Treadmill section, enabled when showReset.
HandleResetTreadmill ==
    /\ mounted
    /\ targetSpeed # DEFAULT_SPEED
    /\ targetSpeed' = DEFAULT_SPEED
    /\ frames' = RerunEffect(frames, targetSpeed, DEFAULT_SPEED)
    /\ UNCHANGED <<currentSpeed, multiplier, overrideIndex, tempOffset,
                   holdingOffset, mounted, mouse, touch>>
    /\ UNCHANGED <<table, script>>

\* handleResetVRTI without setOverrideIndex(-1).
HandleResetVRTIMultiplierOnly ==
    /\ mounted
    /\ (multiplier # UNITY_MULTIPLIER \/ overrideIndex # NO_OVERRIDE)
    /\ multiplier' = UNITY_MULTIPLIER
    /\ UNCHANGED <<targetSpeed, currentSpeed, overrideIndex, tempOffset,
                   holdingOffset, frames, mounted, mouse, touch>>
    /\ UNCHANGED <<table, script>>

\* The reset button of the VRTI section, enabled when showReset.
HandleResetVRTI ==
    /\ mounted
    /\ (multiplier # UNITY_MULTIPLIER \/ overrideIndex # NO_OVERRIDE)
    /\ multiplier' = UNITY_MULTIPLIER
    /\ overrideIndex' = NO_OVERRIDE
    /\ UNCHANGED <<targetSpeed, currentSpeed, tempOffset, holdingOffset,
                   frames, mounted, mouse, touch>>
    /\ UNCHANGED <<table, script>>

----------------------------------------------------------------------------
(* The events of the Slow Down and Catch Up buttons, lines 677-709. *)

NudgeFrame == UNCHANGED <<targetSpeed, currentSpeed, multiplier, overrideIndex,
                          frames, mounted, table, script>>

\* onMouseDown={handleSlowDown}
MouseDownSlow ==
    /\ mounted /\ mouse = "none"
    /\ mouse' = "down"
    /\ HandleSlowDown
    /\ NudgeFrame /\ UNCHANGED touch

\* onMouseDown={handleCatchUp}
MouseDownCatch ==
    /\ mounted /\ mouse = "none"
    /\ mouse' = "up"
    /\ HandleCatchUp
    /\ NudgeFrame /\ UNCHANGED touch

\* onMouseUp={handleOffsetRelease}: the button is released over either control,
\* wherever it was pressed.
MouseUp ==
    /\ mounted
    /\ mouse' = "none"
    /\ HandleOffsetRelease
    /\ NudgeFrame /\ UNCHANGED touch

\* onMouseLeave={handleOffsetRelease}: the pointer leaves either control,
\* pressed or not; a press on the control is lost.
MouseLeave ==
    /\ mounted
    /\ mouse' = "none"
    /\ HandleOffsetRelease
    /\ NudgeFrame /\ UNCHANGED touch

\* onTouchStart={handleSlowDown}
TouchStartSlow ==
    /\ mounted /\ touch = "none"
    /\ touch' = "down"
    /\ HandleSlowDown
    /\ NudgeFrame /\ UNCHANGED mouse

\* onTouchStart={handleCatchUp}
TouchStartCatch ==
    /\ mounted /\ touch = "none"
    /\ touch' = "up"
    /\ HandleCatchUp
    /\ NudgeFrame /\ UNCHANGED mouse

\* onTouchEnd={handleOffsetRelease}
TouchEnd ==
    /\ mounted /\ touch # "none"
    /\ touch' = "none"
    /\ HandleOffsetRelease
    /\ NudgeFrame /\ UNCHANGED mouse

\* The browser cancels the touch (touchcancel): the buttons bind no
\* onTouchCancel, so no handler runs.
TouchCancel ==
    /\ mounted /\ touch # "none"
    /\ touch' = "none"
    /\ UNCHANGED <<tempOffset, holdingOffset>>
    /\ NudgeFrame /\ UNCHANGED mouse

----------------------------------------------------------------------------
(* TreadmillTable.tsx: the search box, the feature and driver filters and   *)
(* the pagination.  Strings are sequences of one-character strings.         *)

itemsPerPage == 12

\* The number of treadmills in the data prop.
DataSize == 30

UpperCase == <<"A", "B", "C", "D", "E", "F", "G", "H", "I", "J", "K", "L", "M",
               "N", "O", "P", "Q", "R", "S", "T", "U", "V", "W", "X", "Y", "Z">>

LowerCase == <<"a", "b", "c", "d", "e", "f", "g", "h", "i", "j", "k", "l", "m",
               "n", "o", "p", "q", "r", "s", "t", "u", "v", "w", "x", "y", "z">>

ToLowerChar(c) ==
    IF \E i \in DOMAIN UpperCase : UpperCase[i] = c
    THEN LowerCase[CHOOSE i \in DOMAIN UpperCase : UpperCase[i] = c]
    ELSE c

\* String.prototype.toLowerCase
toLowerCase(s) == [i \in DOMAIN s |-> ToLowerChar(s[i])]

\* String.prototype.includes
includes(s, sub) ==
    \E i \in 0 .. Len(s) - Len(sub) : SubSeq(s, i + 1, i + Len(sub)) = sub

\* Array.prototype.includes
arrayIncludes(arr, x) == \E i \in DOMAIN arr : arr[i] = x

KINGSMITH_WALKING_PAD ==
    <<"K", "i", "n", "g", "s", "m", "i", "t", "h", " ",
      "W", "a", "l", "k", "i", "n", "g", " ", "P", "a", "d">>

WALKINGPAD == <<"W", "a", "l", "k", "i", "n", "g", "P", "a", "d">>

GENERIC == <<"G", "e", "n", "e", "r", "i", "c">>

GENERIC_FTMS == <<"G", "e", "n", "e", "r", "i", "c", " ", "F", "T", "M", "S">>

getDriverDisplayName(driver) ==
    CASE driver = KINGSMITH_WALKING_PAD -> WALKINGPAD
      [] driver = GENERIC -> GENERIC_FTMS
      [] OTHER -> driver

\* One treadmill of the data prop: makes, models, drivers and features vary
\* with the position so that the filters cut the list to every length.
Treadmill(i) ==
    [make |-> IF i % 2 = 1
              THEN <<"K", "i", "n", "g", "S", "m", "i", "t", "h">>
              ELSE <<"U", "R", "E", "V", "O">>,
     model |-> <<"P", <<"0", "1", "2">>[(i % 3) + 1]>>,
     driver |-> IF i % 5 = 0 THEN GENERIC
                ELSE IF i % 2 = 1 THEN KINGSMITH_WALKING_PAD
                ELSE <<"U", "R", "E", "V", "O">>,
     features |-> (IF i % 7 = 0 THEN {} ELSE {"speedControl"})
                  \cup (IF i % 2 = 0 THEN {"steps"} ELSE {})]

data == [i \in 1 .. DataSize |-> Treadmill(i)]

\* The texts typed into the search box: none, part of a make, a model in
\* capitals, part of a driver's display name, and a text nothing matches.
SearchTexts ==
    {<<>>, <<"k", "i", "n", "g">>, <<"P", "1">>, <<"f", "t", "m", "s">>, <<"z">>}

\* stats.features and stats.drivers: what the filter dropdown offers.
statsFeatures == UNION {data[i].features : i \in DOMAIN data}

statsDrivers == {getDriverDisplayName(data[i].driver) : i \in DOMAIN data}

matchesSearch(item) ==
    \/ includes(toLowerCase(item.make), toLowerCase(search))
    \/ includes(toLowerCase(item.model), toLowerCase(search))
    \/ includes(toLowerCase(getDriverDisplayName(item.driver)),
                toLowerCase(search))

matchesFeatures(item) ==
    \/ Len(selectedFeatures) = 0
    \/ \A k \in DOMAIN selectedFeatures : selectedFeatures[k] \in item.features

matchesDrivers(item) ==
    \/ Len(selectedDrivers) = 0
    \/ arrayIncludes(selectedDrivers, getDriverDisplayName(item.driver))

matchesAll(item) ==
    matchesSearch(item) /\ matchesFeatures(item) /\ matchesDrivers(item)

filteredData == SelectSeq(data, matchesAll)

\* Math.ceil(filteredData.length / itemsPerPage)
totalPages == (Len(filteredData) + itemsPerPage - 1) \div itemsPerPage

paginatedData ==
    SubSeq(filteredData, (page - 1) * itemsPerPage + 1,
           Min(page * itemsPerPage, Len(filteredData)))

activeFilterCount == Len(selectedFeatures) + Len(selectedDrivers)

isClearDisabled == search = <<>> /\ activeFilterCount = 0

\* The array after a toggle of x: x removed when present, appended when not.
Toggle(arr, x) ==
    LET IsNot(y) == y # x
    IN  IF arrayIncludes(arr, x) THEN SelectSeq(arr, IsNot) ELSE Append(arr, x)

\* The page after handlePageChange(newPage).
PageAfter(newPage) ==
    IF newPage >= 1 /\ newPage <= totalPages THEN newPage ELSE page

HandlePageChange(newPage) ==
    /\ table' = [table EXCEPT !.page = PageAfter(newPage)]
    /\ UNCHANGED <<calculatorVars, script>>

\* The buttons of the pagination, rendered while totalPages > 1; the arrows
\* are disabled on the first and on the last page.
PrevPageClick ==
    /\ totalPages > 1
    /\ page # 1
    /\ HandlePageChange(page - 1)

PageButtonClick(p) ==
    /\ totalPages > 1
    /\ p \in 1 .. totalPages
    /\ HandlePageChange(p)

NextPageClick ==
    /\ totalPages > 1
    /\ page # totalPages
    /\ HandlePageChange(page + 1)

\* onChange of the search box.
SearchChange(text) ==
    /\ table' = [table EXCEPT !.search = text, !.page = 1]
    /\ UNCHANGED <<calculatorVars, script>>

\* toggleFeature without setPage(1).
ToggleFeatureKeepsPage(feature) ==
    /\ table' = [table EXCEPT
                    !.selectedFeatures = Toggle(selectedFeatures, feature)]
    /\ UNCHANGED <<calculatorVars, script>>

ToggleFeature(feature) ==
    /\ table' = [table EXCEPT
                    !.selectedFeatures = Toggle(selectedFeatures, feature),
                    !.page = 1]
    /\ UNCHANGED <<calculatorVars, script>>

ToggleDriver(driver) ==
    /\ table' = [table EXCEPT
                    !.selectedDrivers = Toggle(selectedDrivers, driver),
                    !.page = 1]
    /\ UNCHANGED <<calculatorVars, script>>

ClearFilters ==
    /\ table' = [table EXCEPT !.search = <<>>, !.selectedFeatures = <<>>,
                              !.selectedDrivers = <<>>, !.page = 1]
    /\ UNCHANGED <<calculatorVars, script>>

\* The Clear button, disabled when isClearDisabled, and the Clear selection
\* button of the dropdown, rendered while activeFilterCount > 0.
ClearClick ==
    /\ (~isClearDisabled \/ activeFilterCount > 0)
    /\ ClearFilters

----------------------------------------------------------------------------
(* scripts/generate-releases.js. *)

\* The value of releases before fetchReleases has returned.
NoResponse == [kind |-> "none", items |-> <<>>]

(* A file name is [text, version, ext] and a tag name [text, version]: the  *)
(* version is <<major, minor, patch>>, or <<>> when the name holds no       *)
(* digits.digits.digits, and text is what stands before it.                 *)

NoVersion == <<>>

FileName(text, version, ext) == [text |-> text, version |-> version, ext |-> ext]

\* The content of a file written before the run.
StaleBody ==
    [pageTitle |-> "stale", pageVersion |-> <<>>,
     label |-> [text |-> "", version |-> NoVersion], order |-> 0,
     sections |-> <<>>]

\* The entries OUTPUT_DIR may hold when the run starts: two pages generated
\* by an earlier run, a hand-written .md page and a file that is no page.
ExistingEntries ==
    {[name |-> FileName("v", <<0, 1, 3>>, "mdx"), body |-> StaleBody],
     [name |-> FileName("VRTI_v", <<0, 2, 6>>, "mdx"), body |-> StaleBody],
     [name |-> FileName("index", NoVersion, "md"), body |-> StaleBody],
     [name |-> FileName("_meta", NoVersion, "yml"), body |-> StaleBody]}

\* A release of the response; its name, like its tag, is [text, version],
\* and text is "" when the release has no name.
Release(text, version, name, body) ==
    [tag_name |-> [text |-> text, version |-> version],
     name |-> name, body |-> body]

NoName == [text |-> "", version |-> NoVersion]

R026 ==
    Release("VRTI v", <<0, 2, 6>>, [text |-> "VRTI v", version |-> <<0, 2, 6>>],
            "notes")

R025 == Release("v", <<0, 2, 5>>, NoName, "")

R013 ==
    Release("vrti-v", <<0, 1, 3>>, [text |-> "VRTI-v", version |-> <<0, 1, 3>>],
            "notes")

R100 == Release("v", <<1, 0, 0>>, [text |-> "v", version |-> <<1, 0, 0>>], "")

RNightly == Release("nightly build", NoVersion, NoName, "notes")

\* What response.json() may resolve to: an object that is no array (an API
\* error message), and arrays of releases, newest first.
JsonBodies ==
    {[kind |-> "object", items |-> <<>>],
     [kind |-> "array", items |-> <<>>],
     [kind |-> "array", items |-> <<R026>>],
     [kind |-> "array", items |-> <<R026, R025, R013>>],
     [kind |-> "array", items |-> <<RNightly, R100, R026>>]}

\* file.endsWith(".md") || file.endsWith(".mdx"), with only the .md test.
IsMarkdownOnlyMd(name) == name.ext = "md"

\* file.endsWith(".md") || file.endsWith(".mdx")
IsMarkdown(name) == name.ext = "md" \/ name.ext = "mdx"

\* The orders in which readdir may list the names S.
Listings(S) ==
    {l \in [1 .. Cardinality(S) -> S] : \A n \in S : \E i \in DOMAIN l : l[i] = n}

\* versionRegex.exec(release.tag_name) and the key of the release's group.
GroupKey(release) ==
    IF release.tag_name.version # NoVersion
    THEN [other |-> FALSE,
          major |-> release.tag_name.version[1],
          minor |-> release.tag_name.version[2]]
    ELSE [other |-> TRUE, major |-> 0, minor |-> 0]

\* groups[key]: the releases of the key, in the order of the response.
Group(items, key) ==
    LET HasKey(release) == GroupKey(release) = key
    IN  SelectSeq(items, HasKey)

\* The comparator of sortedKeys is negative: a goes before b.
KeyBefore(a, b) ==
    IF a.other THEN FALSE
    ELSE IF b.other THEN TRUE
    ELSE IF a.major # b.major THEN a.major > b.major
    ELSE a.minor > b.minor

RECURSIVE SortKeys(_)
SortKeys(S) ==
    IF S = {} THEN <<>>
    ELSE LET first == CHOOSE k \in S : \A j \in S \ {k} : KeyBefore(k, j)
         IN  <<first>> \o SortKeys(S \ {first})

sortedKeys(items) == SortKeys({GroupKey(items[i]) : i \in DOMAIN items})

\* tag_name.replace(/[^a-zA-Z0-9._-]/g, "_") on the text of a name: every
\* space becomes "_".
SafeText(text) ==
    CASE text = "VRTI v" -> "VRTI_v"
      [] text = "nightly build" -> "nightly_build"
      [] OTHER -> text

\* replace(/^VRTI[- ]?/, "") on the text of a name; the match is case
\* sensitive.
StripVRTI(text) ==
    CASE text = "VRTI v" -> "v"
      [] text = "VRTI-v" -> "v"
      [] OTHER -> text

\* The file of the group of key, index-th of sortedKeys.
GroupFileName(items, key) ==
    LET latestRelease == Group(items, key)[1]
    IN  FileName(SafeText(latestRelease.tag_name.text),
                 latestRelease.tag_name.version, "mdx")

GroupFileBody(items, key, idx) ==
    LET groupReleases == Group(items, key)
        latestRelease == groupReleases[1]
        n == Len(groupReleases)
        Section(release) ==
            LET releaseTitle == IF release.name # NoName
                                THEN release.name
                                ELSE release.tag_name
            IN  [displayTitle |-> [releaseTitle EXCEPT
                                      !.text = StripVRTI(releaseTitle.text)],
                 body |-> IF release.body # ""
                          THEN release.body
                          ELSE "*No release notes provided.*"]
    IN  [pageTitle |-> IF key.other THEN "Other Releases" ELSE "VRTI v",
         pageVersion |-> IF key.other THEN <<>> ELSE <<key.major, key.minor>>,
         label |-> [latestRelease.tag_name EXCEPT
                       !.text = StripVRTI(latestRelease.tag_name.text)],
         order |-> idx,
         sections |-> [i \in 1 .. n |-> Section(groupReleases[n + 1 - i])]]

\* The first position from i on at which the loop over files awaits an
\* unlink, or Len(l) + 1.
RECURSIVE NextMarkdown(_, _)
NextMarkdown(l, i) ==
    IF i > Len(l) \/ IsMarkdown(l[i]) THEN i ELSE NextMarkdown(l, i + 1)

\* catch (error): console.error and process.exit(1).
Catch(kind) == [script EXCEPT !.pc = "exit", !.error = kind, !.exitCode = 1]

\* await fs.mkdir(OUTPUT_DIR, { recursive: true })
Mkdir ==
    /\ pc = "mkdir"
    /\ script' = [script EXCEPT !.pc = "readdir"]
    /\ UNCHANGED <<calculatorVars, table>>

\* await fs.readdir(OUTPUT_DIR), in any order, and the loop up to its first
\* unlink.
Readdir ==
    /\ pc = "readdir"
    /\ \E l \in Listings({e.name : e \in dir}) :
          script' = [script EXCEPT
                        !.files = l,
                        !.fileIdx = NextMarkdown(l, 1),
                        !.pc = IF NextMarkdown(l, 1) <= Len(l)
                               THEN "unlink" ELSE "fetch"]
    /\ UNCHANGED <<calculatorVars, table>>

\* await fs.unlink(path.join(OUTPUT_DIR, file)), and the loop up to its next
\* unlink.
Unlink ==
    /\ pc = "unlink"
    /\ script' = [script EXCEPT
                     !.dir = {e \in dir : e.name # files[fileIdx]},
                     !.fileIdx = NextMarkdown(files, fileIdx + 1),
                     !.pc = IF NextMarkdown(files, fileIdx + 1) <= Len(files)
                            THEN "unlink" ELSE "fetch"]
    /\ UNCHANGED <<calculatorVars, table>>

\* fs.unlink rejects.
UnlinkFails ==
    /\ pc = "unlink"
    /\ script' = Catch("fs")
    /\ UNCHANGED <<calculatorVars, table>>

\* await fetch(...) rejects: no network.
FetchRejects ==
    /\ pc = "fetch"
    /\ script' = Catch("fetch")
    /\ UNCHANGED <<calculatorVars, table>>

\* await fetch(...) resolves; if (!response.ok) throw.
FetchResponds(ok) ==
    /\ pc = "fetch"
    /\ script' = IF ok THEN [script EXCEPT !.pc = "json"] ELSE Catch("status")
    /\ UNCHANGED <<calculatorVars, table>>

\* await response.json() rejects: the body is no JSON.
JsonRejects ==
    /\ pc = "json"
    /\ script' = Catch("json")
    /\ UNCHANGED <<calculatorVars, table>>

\* await response.json() resolves: releases is set, the Array.isArray test,
\* the grouping and the sort run, up to the first writeFile.
JsonResolves(body) ==
    /\ pc = "json"
    /\ script' =
          IF body.kind # "array"
          THEN [Catch("notArray") EXCEPT !.releases = body]
          ELSE IF sortedKeys(body.items) = <<>>
               THEN [script EXCEPT !.releases = body, !.pc = "done",
                                   !.exitCode = 0]
               ELSE [script EXCEPT !.releases = body, !.pc = "write",
                                   !.index = 0]
    /\ UNCHANGED <<calculatorVars, table>>

\* await fs.writeFile(filePath, fileBody, "utf-8") of the group at index.
WriteFile ==
    /\ pc = "write"
    /\ LET keys == sortedKeys(releases.items)
           key == keys[index + 1]
           fileName == GroupFileName(releases.items, key)
           written == {e \in dir : e.name # fileName} \cup
                      {[name |-> fileName,
                        body |-> GroupFileBody(releases.items, key, index)]}
       IN  script' =
              IF index + 1 = Len(keys)
              THEN [script EXCEPT !.dir = written, !.index = index + 1,
                                  !.pc = "done", !.exitCode = 0]
              ELSE [script EXCEPT !.dir = written, !.index = index + 1]
    /\ UNCHANGED <<calculatorVars, table>>

\* fs.writeFile rejects.
WriteFileFails ==
    /\ pc = "write"
    /\ script' = Catch("fs")
    /\ UNCHANGED <<calculatorVars, table>>

----------------------------------------------------------------------------
(* Specifications. *)

\* TreadmillTable as it mounts.
TableInit ==
    [search |-> <<>>, selectedFeatures |-> <<>>, selectedDrivers |-> <<>>,
     page |-> 1]

\* The script as its process starts, OUTPUT_DIR holding the entries d.
ScriptInit(d) ==
    [pc |-> "mkdir", dir |-> d, files |-> <<>>, fileIdx |-> 1,
     releases |-> NoResponse, index |-> 0, error |-> "none",
     exitCode |-> "running"]

\* AutoWalkCalculator after it mounted and its effect ran once.
CalculatorInit ==
    /\ targetSpeed = DEFAULT_SPEED
    /\ currentSpeed = DEFAULT_SPEED
    /\ multiplier = UNITY_MULTIPLIER
    /\ overrideIndex = NO_OVERRIDE
    /\ tempOffset = 0
    /\ holdingOffset = "null"
    /\ frames = RequestFrame(<<>>, DEFAULT_SPEED)
    /\ mounted = TRUE
    /\ mouse = "none"
    /\ touch = "none"

\* The state after the component mounted and its effect ran once.
Init ==
    /\ CalculatorInit
    /\ table = "unmounted"
    /\ script = "idle"

\* The mounted widget, the two sliders near their defaults.
Next ==
    \/ \E v \in NearTargetPositions : SetTargetSpeed(v)
    \/ AnimateFrame
    \/ HandleOverrideClick
    \/ \E v \in NearMultiplierPositions : MultiplierInput(v)
    \/ MouseDownSlow
    \/ MouseDownCatch
    \/ MouseUp
    \/ MouseLeave
    \/ TouchStartSlow
    \/ TouchStartCatch
    \/ TouchEnd
    \/ TouchCancel
    \/ HandleResetTreadmill
    \/ HandleResetVRTI

Spec == Init /\ [][Next]_vars

\* The smoothing process alone: the target slider over its whole range.
NextSmooth ==
    \/ \E v \in TargetPositions : SetTargetSpeed(v)
    \/ AnimateFrame
    \/ HandleResetTreadmill

SpecSmooth == Init /\ [][NextSmooth]_vars

\* The smoothing process with the target held: the slider was left at any
\* position while currentSpeed rested at any other, and frames keep coming.
InitConverge ==
    /\ targetSpeed \in TargetPositions
    /\ currentSpeed \in TargetPositions
    /\ multiplier = UNITY_MULTIPLIER
    /\ overrideIndex = NO_OVERRIDE
    /\ tempOffset = 0
    /\ holdingOffset = "null"
    /\ frames = RequestFrame(<<>>, targetSpeed)
    /\ mounted = TRUE
    /\ mouse = "none"
    /\ touch = "none"
    /\ table = "unmounted"
    /\ script = "idle"

NextConverge == AnimateFrame

SpecConverge ==
    InitConverge /\ [][NextConverge]_vars /\ WF_vars(AnimateFrame)

\* The widget from mount to unmount.
NextLife ==
    \/ Next
    \/ Unmount

SpecLife == Init /\ [][NextLife]_vars

\* The speed composition over its inputs: currentSpeed at rest on any slider
\* position, any stored multiplier, any override, any nudge.
InitEngine ==
    /\ targetSpeed \in TargetPositions
    /\ currentSpeed = targetSpeed
    /\ multiplier \in {SnapMultiplier(v) : v \in MultiplierPositions}
    /\ overrideIndex \in NO_OVERRIDE .. LAST_PRESET
    /\ mouse \in {"none", "down", "up"}
    /\ holdingOffset = (IF mouse = "none" THEN "null" ELSE mouse)
    /\ tempOffset = (IF mouse = "none" THEN 0
                     ELSE IF mouse = "down" THEN -TEMP_OFFSET_AMOUNT
                     ELSE TEMP_OFFSET_AMOUNT)
    /\ frames = RequestFrame(<<>>, targetSpeed)
    /\ mounted = TRUE
    /\ touch = "none"
    /\ table = "unmounted"
    /\ script = "idle"

NextEngine ==
    \/ HandleOverrideClick
    \/ \E v \in MultiplierPositions : MultiplierInput(v)
    \/ MouseDownSlow
    \/ MouseDownCatch
    \/ MouseUp
    \/ MouseLeave
    \/ HandleResetVRTI

SpecEngine == InitEngine /\ [][NextEngine]_vars

\* handleMultiplierChange over every proposed value with two decimal places.
NextSnap == \E v \in 0 .. MULTIPLIER_MAX : HandleMultiplierChange(v)

SpecSnap == Init /\ [][NextSnap]_vars

\* The target slider over its whole range, its reset, the override toggle and
\* the ticks.
NextPin ==
    \/ \E v \in TargetPositions : SetTargetSpeed(v)
    \/ AnimateFrame
    \/ HandleOverrideClick
    \/ HandleResetTreadmill

SpecPin == Init /\ [][NextPin]_vars

\* The multiplier slider over its whole range, the override toggle that
\* disables it and the reset of the section.
NextMult ==
    \/ \E v \in MultiplierPositions : MultiplierInput(v)
    \/ HandleOverrideClick
    \/ HandleResetVRTI

SpecMult == Init /\ [][NextMult]_vars

\* TreadmillTable over the fixed data.
NextTable ==
    \/ \E text \in SearchTexts : SearchChange(text)
    \/ \E feature \in statsFeatures : ToggleFeature(feature)
    \/ \E driver \in statsDrivers : ToggleDriver(driver)
    \/ ClearClick
    \/ PrevPageClick
    \/ \E p \in 1 .. DataSize : PageButtonClick(p)
    \/ NextPageClick

InitTable ==
    /\ CalculatorInit
    /\ table = TableInit
    /\ script = "idle"

SpecTable == InitTable /\ [][NextTable]_vars

\* One run of scripts/generate-releases.js over any of the directories.
InitReleases ==
    /\ CalculatorInit
    /\ table = "unmounted"
    /\ \E d \in SUBSET ExistingEntries : script = ScriptInit(d)

NextReleases ==
    \/ Mkdir
    \/ Readdir
    \/ Unlink
    \/ UnlinkFails
    \/ FetchRejects
    \/ \E ok \in BOOLEAN : FetchResponds(ok)
    \/ JsonRejects
    \/ \E body \in JsonBodies : JsonResolves(body)
    \/ WriteFile
    \/ WriteFileFails

SpecReleases == InitReleases /\ [][NextReleases]_vars

\* The smoothing process with the effect flushed at any moment after the
\* commit, the target slider near its default.
NextDeferred ==
    \/ \E v \in NearTargetPositions : SetTargetSpeedDeferred(v)
    \/ FlushEffect
    \/ AnimateFrame

SpecDeferred == Init /\ [][NextDeferred]_vars

----------------------------------------------------------------------------
(* Properties. *)

\* n applications of the override toggle to index i.
RECURSIVE Toggled(_, _)
Toggled(n, i) == IF n = 0 THEN i ELSE Toggled(n - 1, NextOverrideIndex(i))

\* x lies on the closed segment between a and b.
Between(x, a, b) == (a <= x /\ x <= b) \/ (b <= x /\ x <= a)

\* C1: in every state reachable by target edits, multiplier edits, override
\* toggles, nudge presses and releases, resets and animation ticks, finalSpeed
\* lies in [0, 1].
C1_FinalSpeedInRange == 0 <= finalSpeed /\ finalSpeed <= FULL_SPEED

\* A tick has moved currentSpeed off its target and the sum of the
\* post-multiplier speed and the offset exceeds 1: the ceiling acts.
C1_Witness ==
    /\ currentSpeed # targetSpeed
    /\ postMultiplierSpeed + effectiveOffset > FULL_SPEED

\* C2: floor protection. With a negative tempOffset and postMultiplierSpeed at
\* or above 0.1, effectiveOffset is max(tempOffset, 0.1 - postMultiplierSpeed)
\* and finalSpeed is min(1, max(0.1, postMultiplierSpeed - 0.25)), never below
\* 0.1; a post-multiplier speed of 1.0 gives 0.75 and one of 0.15 gives 0.10.
C2_FloorProtection ==
    (tempOffset < 0 /\ postMultiplierSpeed >= MIN_FINAL_SPEED) =>
        /\ effectiveOffset =
               Max(tempOffset, MIN_FINAL_SPEED - postMultiplierSpeed)
        /\ finalSpeed =
               Min(FULL_SPEED,
                   Max(MIN_FINAL_SPEED, postMultiplierSpeed - TEMP_OFFSET_AMOUNT))
        /\ finalSpeed >= MIN_FINAL_SPEED
        /\ (postMultiplierSpeed = FULL_SPEED => finalSpeed = 750000)
        /\ (postMultiplierSpeed = 150000 => finalSpeed = 100000)

\* Slow Down is held with no override, multiplier 1.0 and base 0.15: the
\* offset is cut from -0.25 to -0.05.
C2_Witness ==
    /\ tempOffset < 0
    /\ ~isOverride
    /\ multiplier = UNITY_MULTIPLIER
    /\ postMultiplierSpeed = 150000
    /\ effectiveOffset = -50000

\* C3: every way a nudge press can end fires the release, so tempOffset is
\* never nonzero while no press is in progress.
C3_NoStuckOffset ==
    tempOffset # 0 => (mouse # "none" \/ touch # "none")

\* C4: a tick leaves currentSpeed on the closed segment between its previous
\* value and the target the tick used.
C4_TickOnSegment ==
    [][AnimateFrame =>
          Between(currentSpeed', currentSpeed, Head(frames).target)]_vars

\* currentSpeed is part of the way down to a lower target.
C4_Witness ==
    /\ currentSpeed > targetSpeed
    /\ currentSpeed \notin TargetPositions
    /\ Head(frames).target = targetSpeed

\* C5: with the target fixed and frames firing, currentSpeed eventually
\* equals targetSpeed exactly.
C5_Converges == <>(currentSpeed = targetSpeed)

\* currentSpeed has come within the snap distance of a target it started
\* at least one slider step away from: the next tick snaps.
C5_Witness ==
    /\ currentSpeed # targetSpeed
    /\ Abs(targetSpeed - currentSpeed) < SNAP_EPSILON

\* C6, as claimed: four toggles from -1 return to -1.
C6_FourTogglesReturn ==
    overrideIndex = NO_OVERRIDE => Toggled(4, overrideIndex) = NO_OVERRIDE

\* C6, amended: the override cycle has length five. From every index five
\* toggles return to it and fewer do not; four toggles from -1 give 3.
C6_FiveTogglesReturn ==
    /\ Toggled(5, overrideIndex) = overrideIndex
    /\ \A n \in 1 .. 4 : Toggled(n, overrideIndex) # overrideIndex
    /\ (overrideIndex = NO_OVERRIDE => Toggled(4, overrideIndex) = LAST_PRESET)

\* Four toggles in a row have taken the index from -1 to 3.
C6_Witness == overrideIndex = LAST_PRESET

\* C7: one toggle takes index i to i + 1 for i in -1 .. 2 and 3 to -1, changes
\* nothing else, and is enabled in every state.
C7_OverrideStep ==
    /\ [](ENABLED HandleOverrideClick)
    /\ [][HandleOverrideClick =>
            /\ overrideIndex \in -1 .. 2 => overrideIndex' = overrideIndex + 1
            /\ overrideIndex = 3 => overrideIndex' = -1
            /\ UNCHANGED <<targetSpeed, currentSpeed, multiplier, tempOffset,
                           holdingOffset>>]_vars

\* The toggle has stepped from -1 to 0 while a nudge is held.
C7_Witness == overrideIndex = 0 /\ tempOffset # 0

\* C8: overrideIndex is in -1 .. 3, and while it is >= 0 the preset lookup is
\* defined and yields 0.25, 0.50, 0.75 or 1.00.
C8_OverrideIndexInRange ==
    /\ overrideIndex \in -1 .. 3
    /\ overrideIndex >= 0 =>
          /\ overrideIndex + 1 \in DOMAIN presets
          /\ override \in {250000, 500000, 750000, 1000000}

\* The last preset, 1.00, is selected.
C8_Witness == isOverride /\ override = FULL_SPEED

\* C9, as claimed: only the toggle changes overrideIndex.
C9_OnlyToggleChangesOverride ==
    [][overrideIndex' # overrideIndex => HandleOverrideClick]_vars

\* C9, amended: only the toggle and the VRTI reset change overrideIndex; the
\* reset sets it to -1.
C9_OnlyToggleOrResetChangesOverride ==
    [][overrideIndex' # overrideIndex =>
          \/ HandleOverrideClick
          \/ (HandleResetVRTI /\ overrideIndex' = NO_OVERRIDE)]_vars

\* An override is on while the target was reset, a tick has moved
\* currentSpeed and a nudge is held: none of them touched the index.
C9_Witness ==
    /\ isOverride
    /\ targetSpeed = DEFAULT_SPEED
    /\ currentSpeed # targetSpeed
    /\ tempOffset # 0

\* C10, as claimed: every proposed v in [0.92, 1.08] is stored as 1.0, every
\* other v unchanged.
C10_SnapClosedBand ==
    [][\A v \in 0 .. MULTIPLIER_MAX :
          HandleMultiplierChange(v) =>
              multiplier' = IF 92 <= v /\ v <= 108 THEN 100 ELSE v]_vars

\* C10, amended: every proposed v with 0.92 <= v < 1.08 is stored as 1.0;
\* 1.08 and every v outside the band, 0.91 and 1.09 among them, unchanged.
C10_SnapHalfOpenBand ==
    [][\A v \in 0 .. MULTIPLIER_MAX :
          HandleMultiplierChange(v) =>
              multiplier' = IF 92 <= v /\ v < 108 THEN 100 ELSE v]_vars

\* The proposed value 1.08 has been stored as it is.
C10_Witness == multiplier = 108

\* C11, as claimed: multiplier changes only in steps taken from a state with
\* no override active.
C11_MultiplierChangesOnlyWithoutOverride ==
    [][multiplier' # multiplier => overrideIndex = NO_OVERRIDE]_vars

\* C11, amended: while an override is active the multiplier input is
\* disabled, and the only step that changes multiplier from such a state is
\* the VRTI reset, which sets it to 1.0 and clears the override; with no
\* override active only the multiplier input and the VRTI reset change it.
C11_MultiplierChangesByInputOrReset ==
    /\ [](isOverride =>
            ~ENABLED (\E v \in MultiplierPositions : MultiplierInput(v)))
    /\ [][multiplier' # multiplier =>
            \/ /\ overrideIndex = NO_OVERRIDE
               /\ \E v \in MultiplierPositions : MultiplierInput(v)
            \/ /\ HandleResetVRTI
               /\ multiplier' = UNITY_MULTIPLIER
               /\ overrideIndex' = NO_OVERRIDE]_vars

\* An override is active over a multiplier that was set away from 1.0.
C11_Witness == isOverride /\ multiplier # UNITY_MULTIPLIER

\* finalSpeed as a function of the override index and the offset alone.
PinnedSpeed(k, offset) ==
    LET preset == presets[k + 1]
        eff == IF offset < 0
               THEN IF preset >= MIN_FINAL_SPEED
                    THEN Max(offset, MIN_FINAL_SPEED - preset)
                    ELSE 0
               ELSE offset
    IN  Max(0, Min(FULL_SPEED, preset + eff))

\* C12: with an override active, finalSpeed is clamp(preset + effectiveOffset,
\* 0, 1) with effectiveOffset computed from the preset and tempOffset only, so
\* states that differ only in multiplier and currentSpeed have the same
\* finalSpeed.
C12_OverridePin ==
    isOverride =>
        /\ postMultiplierSpeed = presets[overrideIndex + 1]
        /\ finalSpeed = PinnedSpeed(overrideIndex, tempOffset)

\* Preset 0.75 with Slow Down held, over a multiplier of 2.0 and a
\* currentSpeed of 0: finalSpeed is 0.50.
C12_Witness ==
    /\ overrideIndex = 2
    /\ multiplier = MULTIPLIER_MAX
    /\ currentSpeed = 0
    /\ tempOffset < 0
    /\ finalSpeed = 500000

\* C13: with a negative tempOffset and postMultiplierSpeed below 0.1,
\* effectiveOffset is 0 and finalSpeed is postMultiplierSpeed (base 0.05 with
\* multiplier 1.0 stays 0.05).
C13_SubFloorInert ==
    (tempOffset < 0 /\ postMultiplierSpeed < MIN_FINAL_SPEED) =>
        /\ effectiveOffset = 0
        /\ finalSpeed = postMultiplierSpeed
        /\ (baseSpeed = 500 /\ multiplier = UNITY_MULTIPLIER /\ ~isOverride
               => finalSpeed = 50000)

\* Slow Down is held over base 0.05 with multiplier 1.0 and no override.
C13_Witness ==
    /\ tempOffset < 0
    /\ ~isOverride
    /\ baseSpeed = 500
    /\ multiplier = UNITY_MULTIPLIER

C15_TickLifecycle ==
    /\ [](mounted => ENABLED AnimateFrame)
    /\ [](~mounted => (frames = <<>> /\ ~ENABLED AnimateFrame))
    /\ [](CancelFrame(CancelFrame(frames)) = CancelFrame(frames))
    /\ [](CancelFrame(<<>>) = <<>>)
    /\ [][~mounted => UNCHANGED vars]_vars

\* The widget was unmounted while currentSpeed was still approaching.
C15_Witness == ~mounted /\ currentSpeed # targetSpeed

\* C16: the treadmill reset sets targetSpeed to 5.0 and no other field; the
\* VRTI reset sets multiplier to 1.0 and overrideIndex to -1 in one step and
\* leaves targetSpeed, currentSpeed and tempOffset alone; no step clears an
\* override short of the last preset without also resetting the multiplier.
C16_ResetsAtomic ==
    [][/\ HandleResetTreadmill =>
            /\ targetSpeed' = 5000
            /\ UNCHANGED <<currentSpeed, multiplier, overrideIndex,
                           tempOffset, holdingOffset>>
       /\ HandleResetVRTI =>
            /\ multiplier' = 100
            /\ overrideIndex' = -1
            /\ UNCHANGED <<targetSpeed, currentSpeed, tempOffset>>
       /\ (overrideIndex \in 0 .. 2 /\ overrideIndex' = -1) =>
            multiplier' = 100]_vars

\* Everything is back at its default while ticks are still carrying
\* currentSpeed back and a nudge is held.
C16_Witness ==
    /\ targetSpeed = DEFAULT_SPEED
    /\ multiplier = UNITY_MULTIPLIER
    /\ overrideIndex = NO_OVERRIDE
    /\ currentSpeed \notin TargetPositions
    /\ tempOffset > 0

\* C17: with delta = targetSpeed - currentSpeed, a tick sets currentSpeed to
\* targetSpeed when |delta| < 0.05, strictly, and to currentSpeed + delta *
\* 0.01 otherwise; a tick at currentSpeed = targetSpeed changes nothing.
C17_TickStep ==
    [][AnimateFrame =>
          LET delta == targetSpeed - currentSpeed
          IN  /\ Abs(delta) < 50 => currentSpeed' = targetSpeed
              /\ Abs(delta) >= 50 =>
                    currentSpeed' = currentSpeed + RoundDiv(delta, 100)
              /\ delta = 0 => currentSpeed' = currentSpeed]_vars

\* currentSpeed is exactly 0.05 away from its target: the next tick steps,
\* it does not snap.
C17_Witness == Abs(targetSpeed - currentSpeed) = SNAP_EPSILON

\* C18: with no override and no offset, finalSpeed is clamp(base * multiplier,
\* 0, 1) with base = clamp(currentSpeed / MAX_SPEED, 0, 1); a product above 1
\* is clamped to exactly 1.
C18_ScaledBase ==
    (~isOverride /\ tempOffset = 0) =>
        LET base == Max(0, Min(BASE_ONE, (currentSpeed * BASE_ONE) \div MAX_SPEED))
        IN  /\ finalSpeed = Max(0, Min(FULL_SPEED, base * multiplier))
            /\ (base * multiplier > FULL_SPEED => finalSpeed = FULL_SPEED)

\* Base 0.75 under multiplier 2.0 with no override and no offset.
C18_Witness ==
    /\ ~isOverride
    /\ tempOffset = 0
    /\ currentSpeed = 7500
    /\ multiplier = MULTIPLIER_MAX

\* C19: a tempOffset >= 0 is never attenuated: effectiveOffset is tempOffset
\* and finalSpeed is clamp(postMultiplierSpeed + tempOffset, 0, 1).
C19_PositiveOffsetUnchanged ==
    tempOffset >= 0 =>
        /\ effectiveOffset = tempOffset
        /\ finalSpeed =
               Max(0, Min(FULL_SPEED, postMultiplierSpeed + tempOffset))

\* Catch Up is held over a post-multiplier speed of 0.9 with no override:
\* the sum 1.15 passes through and only the final clamp cuts it.
C19_Witness ==
    /\ tempOffset > 0
    /\ ~isOverride
    /\ postMultiplierSpeed = 900000
    /\ finalSpeed = FULL_SPEED

\* C20: targetSpeed and currentSpeed are in [0, MAX_SPEED], so
\* currentSpeed / MAX_SPEED is in [0, 1] before the code's upper clamp.
C20_SpeedsInRange ==
    /\ 0 <= targetSpeed /\ targetSpeed <= MAX_SPEED
    /\ 0 <= currentSpeed /\ currentSpeed <= MAX_SPEED
    /\ 0 <= currentSpeed * BASE_ONE
    /\ currentSpeed * BASE_ONE <= BASE_ONE * MAX_SPEED
    /\ baseSpeed * MAX_SPEED = currentSpeed * BASE_ONE

\* currentSpeed rests at the top of the range while the target is at the
\* bottom.
C20_Witness == currentSpeed = MAX_SPEED /\ targetSpeed = 0

\* C21: targetSpeed is never negative, so with an override active the
\* reverse branch min(base, override) is not taken and postMultiplierSpeed is
\* the preset exactly.
C21_ReverseBranchDead ==
    /\ targetSpeed >= 0
    /\ isOverride => postMultiplierSpeed = override

\* An override is active over a target of 0 and a base below the preset: the
\* reverse branch would give the base.
C21_Witness ==
    /\ isOverride
    /\ targetSpeed = 0
    /\ currentSpeed # DEFAULT_SPEED
    /\ baseSpeed * UNITY_MULTIPLIER < override

\* C22: tempOffset is -0.25, 0 or +0.25 in every state; it is 0 initially, a
\* press of Slow Down sets it to -0.25 and a press of Catch Up to +0.25 in
\* the step of the press, and every release sets it to 0.
C22_OffsetValues ==
    /\ tempOffset = 0
    /\ [](tempOffset \in {-250000, 0, 250000})
    /\ [][/\ (MouseDownSlow \/ TouchStartSlow) => tempOffset' = -250000
          /\ (MouseDownCatch \/ TouchStartCatch) => tempOffset' = 250000
          /\ (MouseUp \/ MouseLeave \/ TouchEnd) => tempOffset' = 0]_vars

\* Slow Down was pressed with the mouse while a touch held Catch Up: the
\* offset went from +0.25 to -0.25 in one step.
C22_Witness ==
    /\ mouse = "down"
    /\ touch = "up"
    /\ tempOffset = -TEMP_OFFSET_AMOUNT

\* C23: a tick changes currentSpeed only: targetSpeed, multiplier,
\* overrideIndex and tempOffset are as before it, and a nonzero tempOffset
\* changes only by a press or a release event.
C23_NoAutoRelease ==
    [][/\ AnimateFrame =>
            UNCHANGED <<targetSpeed, multiplier, overrideIndex, tempOffset,
                        holdingOffset>>
       /\ (tempOffset # 0 /\ tempOffset' # tempOffset) =>
            \/ MouseUp \/ MouseLeave \/ TouchEnd
            \/ MouseDownSlow \/ MouseDownCatch
            \/ TouchStartSlow \/ TouchStartCatch]_vars

\* Slow Down is still applied after ticks have carried currentSpeed off the
\* slider positions, toward a target changed during the hold.
C23_Witness ==
    /\ mouse = "down"
    /\ tempOffset = -TEMP_OFFSET_AMOUNT
    /\ holdingOffset = "down"
    /\ targetSpeed # DEFAULT_SPEED
    /\ currentSpeed \notin TargetPositions

\* C24: only an animation tick changes currentSpeed: a step that changes it
\* is a tick and is no target edit, multiplier edit, override toggle, nudge
\* press or release, nor either reset.
C24_OnlyTicksMoveCurrentSpeed ==
    [][currentSpeed' # currentSpeed =>
          /\ AnimateFrame
          /\ ~(\E v \in TargetPositions : SetTargetSpeed(v))
          /\ ~(\E v \in MultiplierPositions : MultiplierInput(v))
          /\ ~HandleOverrideClick
          /\ ~(MouseDownSlow \/ MouseDownCatch \/ MouseUp \/ MouseLeave)
          /\ ~(TouchStartSlow \/ TouchStartCatch \/ TouchEnd)
          /\ ~HandleResetTreadmill
          /\ ~HandleResetVRTI]_vars

\* The treadmill was reset after currentSpeed had settled on a moved target,
\* and no tick has run since.
C24_Witness ==
    /\ targetSpeed = DEFAULT_SPEED
    /\ currentSpeed # DEFAULT_SPEED
    /\ currentSpeed \in TargetPositions

\* C25: at most one animation-frame callback is pending in every state,
\* however ticks, target changes and the runs of the effect interleave; while
\* the widget is mounted it is exactly one, and it is the frame whose id
\* animationRef holds, which the next cleanup cancels.
C25_OneFramePending ==
    /\ Len(frames) <= 1
    /\ mounted => (Len(frames) = 1 /\ frames[1].ref)

\* A new target is committed, the effect has not run yet and the old loop,
\* part of the way to the old target, has its frame pending.
C25_Witness ==
    /\ EffectStale
    /\ EffectTarget # DEFAULT_SPEED
    /\ currentSpeed \notin TargetPositions

\* C26: the two nudge controls write one tempOffset and the last writer wins.
\* A press sets the offset and the highlight of its own control whatever the
\* other control holds, a release event from either control clears both even
\* while the other control is still held, nothing else changes the offset,
\* and the highlight agrees with the sign of the offset in every state.
C26_LastWriterWins ==
    /\ [](/\ holdingOffset = "down" <=> tempOffset < 0
          /\ holdingOffset = "up" <=> tempOffset > 0
          /\ holdingOffset = "null" <=> tempOffset = 0)
    /\ [][/\ (MouseDownSlow \/ TouchStartSlow) =>
                (tempOffset' = -TEMP_OFFSET_AMOUNT /\ holdingOffset' = "down")
          /\ (MouseDownCatch \/ TouchStartCatch) =>
                (tempOffset' = TEMP_OFFSET_AMOUNT /\ holdingOffset' = "up")
          /\ (MouseUp \/ MouseLeave \/ TouchEnd) =>
                (tempOffset' = 0 /\ holdingOffset' = "null")
          /\ (TouchEnd /\ mouse # "none") => tempOffset' = 0
          /\ ((MouseUp \/ MouseLeave) /\ touch # "none") => tempOffset' = 0
          /\ <<tempOffset, holdingOffset>>' # <<tempOffset, holdingOffset>> =>
                \/ MouseDownSlow \/ TouchStartSlow
                \/ MouseDownCatch \/ TouchStartCatch
                \/ MouseUp \/ MouseLeave \/ TouchEnd]_vars

\* The mouse still holds Slow Down after a touch on a control began and
\* ended: the touch's release cleared the offset under the held button.
C26_Witness ==
    /\ mouse = "down"
    /\ touch = "none"
    /\ tempOffset = 0
    /\ holdingOffset = "null"

\* C27: the stored multiplier is exactly 1.0 or at least 0.08 away from 1.0,
\* and lies in [0, 2], after any multiplier edits and resets.
C27_MultiplierOffSnapBand ==
    /\ multiplier = 100 \/ Abs(multiplier - 100) >= 8
    /\ 0 <= multiplier /\ multiplier <= 200

\* The slider was moved to 1.10, the stored value nearest above 1.0, and an
\* override was switched on over it.
C27_Witness == multiplier = 110 /\ isOverride

\* C28: the page of TreadmillTable is in 1 .. max(1, totalPages) after any
\* search edits, filter toggles, clears and page clicks; every step that
\* changes the search text or a filter sets the page to 1, and a page change
\* asked for outside 1 .. totalPages leaves the page as it is.
C28_PageInRange ==
    /\ [](1 <= page /\ page <= Max(1, totalPages))
    /\ [](\A n \in {0, totalPages + 1} : PageAfter(n) = page)
    /\ [][<<search, selectedFeatures, selectedDrivers>>' #
             <<search, selectedFeatures, selectedDrivers>> => page' = 1]_vars

\* Nothing matches the search text typed over a ticked driver: totalPages is
\* 0 and the page is 1.
C28_Witness ==
    /\ totalPages = 0
    /\ page = 1
    /\ search # <<>>
    /\ selectedDrivers # <<>>

\* The run ended in the catch block on a failed fetch or a response that is
\* no array.
FetchFailed ==
    pc = "exit" /\ error \in {"fetch", "status", "json", "notArray"}

\* C29: the run deletes every .md and .mdx file of the output directory
\* before it fetches, so a run whose fetch fails or returns no array ends
\* with exit code 1, the pages it found removed and no file written.
C29_DeleteBeforeFetch ==
    /\ pc \in {"fetch", "json"} =>
          \A e \in dir : e.name.ext \notin {"md", "mdx"}
    /\ releases.kind = "object" => (pc = "exit" /\ error = "notArray")
    /\ FetchFailed =>
          /\ exitCode = 1
          /\ \A e \in dir : e.name.ext \notin {"md", "mdx"}
          /\ {e.name : e \in dir} =
                {files[i] : i \in DOMAIN files} \
                   {n \in {files[i] : i \in DOMAIN files} :
                       n.ext \in {"md", "mdx"}}
          /\ \A e \in dir : e \in ExistingEntries

\* The response was no array: the run has exited with code 1, the three
\* pages it found are deleted and only the file that is no page is left.
C29_Witness ==
    /\ pc = "exit"
    /\ error = "notArray"
    /\ exitCode = 1
    /\ Len(files) = 4
    /\ Cardinality(dir) = 1

====
